---- MODULE Spec2Model ----
(***************************************************************************)
(* just-orm: JsonDatabase<T>, a JSON-file store (src/src/lib.rs).          *)
(*                                                                         *)
(* Strings are sequences of one-character strings, so that split('.'),     *)
(* format!("{}.json", id) and Path::extension are computed, not assumed.   *)
(* A serde_json::Value is a tagged record:                                 *)
(*   [t |-> "null"], [t |-> "str", s |-> chars], [t |-> "arr", a |-> seq], *)
(*   [t |-> "obj", m |-> function from keys to values].                    *)
(* A panic (unwrap on None, expect, index into a non-object) is the value  *)
(* Panic; it propagates to the caller, which stops where the code stops.   *)
(***************************************************************************)
EXTENDS Integers, Sequences, FiniteSets, TLC

VARIABLES current_model_name, files, last, eng

vars == <<current_model_name, files, last, eng>>

(***************************************************************************)
(* serde_json::Value                                                       *)
(***************************************************************************)
JNull == [t |-> "null"]
JStr(s) == [t |-> "str", s |-> s]
JNum(n) == [t |-> "num", n |-> n]
JBool(b) == [t |-> "bool", b |-> b]
JArr(a) == [t |-> "arr", a |-> a]
JObj(m) == [t |-> "obj", m |-> m]
EmptyMap == [k \in {} |-> JNull]
Panic == [t |-> "panic"]

is_object(v) == v.t = "obj"
is_array(v) == v.t = "arr"

(***************************************************************************)
(* Strings                                                                 *)
(***************************************************************************)
Dot == "."
K_id == <<"i", "d">>
K_a == <<"a">>
K_b == <<"b">>
K_t == <<"t">>
K_a_b == <<"a", ".", "b">>
K_t_b == <<"t", ".", "b">>
S_1 == <<"1">>
S_2 == <<"2">>
S_empty == <<>>
DotJson == <<".", "j", "s", "o", "n">>
Json == <<"j", "s", "o", "n">>

\* The byte value of a character (keys of a serde_json Map, a BTreeMap, iterate
\* in byte order).
Ord(c) ==
    CASE c = "." -> 46
      [] c = "1" -> 49
      [] c = "2" -> 50
      [] c = "a" -> 97
      [] c = "b" -> 98
      [] c = "d" -> 100
      [] c = "i" -> 105
      [] c = "j" -> 106
      [] c = "n" -> 110
      [] c = "o" -> 111
      [] c = "s" -> 115
      [] c = "t" -> 116

RECURSIVE StrLess(_, _)
StrLess(x, y) ==
    IF y = <<>> THEN FALSE
    ELSE IF x = <<>> THEN TRUE
    ELSE IF Head(x) = Head(y) THEN StrLess(Tail(x), Tail(y))
    ELSE Ord(Head(x)) < Ord(Head(y))

\* The keys of a map in iteration order.
RECURSIVE SortedKeys(_)
SortedKeys(S) ==
    IF S = {} THEN <<>>
    ELSE LET k == CHOOSE x \in S : \A y \in S \ {x} : StrLess(x, y)
         IN  <<k>> \o SortedKeys(S \ {k})

HasDot(s) == \E i \in 1..Len(s) : s[i] = Dot

\* str::split('.')
RECURSIVE split(_)
split(s) ==
    IF \A i \in 1..Len(s) : s[i] # Dot THEN <<s>>
    ELSE LET i == CHOOSE j \in 1..Len(s) :
                      s[j] = Dot /\ \A h \in 1..(j - 1) : s[h] # Dot
         IN  <<SubSeq(s, 1, i - 1)>> \o split(SubSeq(s, i + 1, Len(s)))

(***************************************************************************)
(* The document path engine                                                *)
(***************************************************************************)
\* Value::get(&str): Some only for a key of an object.
ValueGet(v, key) ==
    IF is_object(v) /\ key \in DOMAIN v.m THEN v.m[key] ELSE JNull

RECURSIVE get_nested_property(_, _)
get_nested_property(obj, keys) ==
    IF keys = <<>> THEN obj
    ELSE get_nested_property(ValueGet(obj, Head(keys)), Tail(keys))

\* IndexAssign appending to a string that is already there.
IndexAssign_append(obj, key, value) ==
    IF obj.t = "null" THEN JObj(key :> value)
    ELSE IF is_object(obj)
         THEN IF key \in DOMAIN obj.m /\ obj.m[key].t = "str" /\ value.t = "str"
              THEN JObj((key :> JStr(obj.m[key].s \o value.s)) @@ obj.m)
              ELSE JObj((key :> value) @@ obj.m)
    ELSE Panic

\* obj[key] = value (IndexMut<&str> for Value): null becomes an object, an
\* object gets the key, anything else panics.
IndexAssign(obj, key, value) ==
    IF obj.t = "null" THEN JObj(key :> value)
    ELSE IF is_object(obj) THEN JObj((key :> value) @@ obj.m)
    ELSE Panic

\* set_nested_property with insert in place of or_insert_with: the object on
\* the way is always a new empty one.
RECURSIVE set_nested_property_fresh(_, _, _)
set_nested_property_fresh(obj, keys, value) ==
    IF Len(keys) = 1 THEN IndexAssign(obj, keys[1], value)
    ELSE IF ~is_object(obj) THEN Panic
    ELSE LET key == keys[1]
             r == set_nested_property_fresh(JObj(EmptyMap), Tail(keys), value)
         IN  IF r = Panic THEN Panic ELSE JObj((key :> r) @@ obj.m)

\* set_nested_property merging an object value into the object that is there.
RECURSIVE set_nested_property_merge(_, _, _)
set_nested_property_merge(obj, keys, value) ==
    IF Len(keys) = 1
    THEN IF is_object(obj) /\ keys[1] \in DOMAIN obj.m /\ is_object(obj.m[keys[1]])
            /\ is_object(value)
         THEN JObj((keys[1] :> JObj(value.m @@ obj.m[keys[1]].m)) @@ obj.m)
         ELSE IndexAssign(obj, keys[1], value)
    ELSE IF ~is_object(obj) THEN Panic
    ELSE LET key == keys[1]
             next_obj == IF key \in DOMAIN obj.m THEN obj.m[key] ELSE JObj(EmptyMap)
             r == set_nested_property_merge(next_obj, Tail(keys), value)
         IN  IF r = Panic THEN Panic ELSE JObj((key :> r) @@ obj.m)

RECURSIVE set_nested_property(_, _, _)
set_nested_property(obj, keys, value) ==
    IF Len(keys) = 1 THEN IndexAssign(obj, keys[1], value)
    ELSE IF ~is_object(obj) THEN Panic
    ELSE LET key == keys[1]
             next_obj == IF key \in DOMAIN obj.m THEN obj.m[key] ELSE JObj(EmptyMap)
             r == set_nested_property(next_obj, Tail(keys), value)
         IN  IF r = Panic THEN Panic ELSE JObj((key :> r) @@ obj.m)

RECURSIVE UpdateKeys(_, _, _)
UpdateKeys(target, source, ks) ==
    IF ks = <<>> \/ target = Panic THEN target
    ELSE UpdateKeys(set_nested_property(target, split(Head(ks)), source.m[Head(ks)]),
                    source, Tail(ks))

update_nested_object(target, source) ==
    IF ~is_object(source) THEN Panic
    ELSE UpdateKeys(target, source, SortedKeys(DOMAIN source.m))

\* matches_condition with any() in place of all().
RECURSIVE matches_condition_any(_, _)
matches_condition_any(item, condition) ==
    IF ~is_object(condition) THEN item = condition
    ELSE IF ~is_object(item) THEN FALSE
    ELSE \E key \in DOMAIN condition.m :
            LET value == condition.m[key]
                nested_value == get_nested_property(item, split(key))
            IN  IF is_object(nested_value) /\ is_object(value)
                THEN matches_condition_any(nested_value, value)
                ELSE nested_value = value

RECURSIVE matches_condition(_, _)
matches_condition(item, condition) ==
    IF ~is_object(condition) THEN item = condition
    ELSE IF ~is_object(item) THEN FALSE
    ELSE \A key \in DOMAIN condition.m :
            LET value == condition.m[key]
                nested_value == get_nested_property(item, split(key))
            IN  IF is_object(nested_value) /\ is_object(value)
                THEN matches_condition(nested_value, value)
                ELSE nested_value = value

(***************************************************************************)
(* The engine on its own: a document drawn from a bounded set, and one     *)
(* call of set_nested_property or matches_condition on it.                 *)
(***************************************************************************)
Scalars == {JNull, JStr(S_1), JNum(1), JBool(TRUE), JArr(<<>>)}

\* The objects with keys in K and values in V.
ObjectsOver(K, V) ==
    UNION {{JObj(f) : f \in [S -> V]} : S \in SUBSET K}

InnerObjects == ObjectsOver({K_b}, Scalars \cup {JObj(K_t :> JStr(S_1))})

EngineValues == Scalars \cup InnerObjects \cup {JObj(K_a_b :> JStr(S_1))}

EngineDocs == ObjectsOver({K_a, K_b, K_a_b}, EngineValues)

EnginePaths == {<<K_a>>, <<K_a, K_b>>, <<K_a, K_b, K_t>>, <<K_b, K_a>>, <<K_t, K_b>>}

EngineNewValues == {JStr(S_2), JNull, JObj(K_b :> JStr(S_2))}

EngineConditions ==
    ObjectsOver({K_a, K_t, K_a_b}, {JNull, JStr(S_1), JObj(EmptyMap), JObj(K_b :> JStr(S_1))})

Restrict(m, S) == [k \in S |-> m[k]]

EngineIdle(d) == [op |-> "idle", doc |-> d]

EngineInit ==
    /\ current_model_name = <<>>
    /\ files = <<>>
    /\ last = <<>>
    /\ eng \in {EngineIdle(d) : d \in EngineDocs}

SetNested ==
    /\ eng.op = "idle"
    /\ \E keys \in EnginePaths, value \in EngineNewValues :
          eng' = [op |-> "set", doc |-> eng.doc, keys |-> keys, value |-> value,
                  out |-> set_nested_property(eng.doc, keys, value)]
    /\ UNCHANGED <<current_model_name, files, last>>

Matches ==
    /\ eng.op = "idle"
    /\ \E condition \in EngineConditions
                          \cup {JObj(Restrict(eng.doc.m, S)) : S \in SUBSET DOMAIN eng.doc.m} :
          eng' = [op |-> "matches", doc |-> eng.doc, condition |-> condition,
                  out |-> matches_condition(eng.doc, condition)]
    /\ UNCHANGED <<current_model_name, files, last>>

EngineNext == SetNested \/ Matches

SpecEngine == EngineInit /\ [][EngineNext]_vars

(***************************************************************************)
(* The record type T: Serialize + Deserialize + Clone + Identifiable.      *)
(* T is a struct with a String field id, which get_id returns, and the     *)
(* remaining fields of the document kept as they are (serde flatten):      *)
(* [id |-> chars, rest |-> function from keys other than "id" to values].  *)
(***************************************************************************)
None == [some |-> FALSE]
Some(x) == [some |-> TRUE, v |-> x]

get_id(data) == data.id

\* serde_json::to_value(&T)
to_value(data) == JObj((K_id :> JStr(data.id)) @@ data.rest)

\* serde_json::from_value::<T>: an object whose "id" is a string.
from_value(j) ==
    IF is_object(j) /\ K_id \in DOMAIN j.m /\ j.m[K_id].t = "str"
    THEN Some([id |-> j.m[K_id].s, rest |-> Restrict(j.m, DOMAIN j.m \ {K_id})])
    ELSE None

(***************************************************************************)
(* Files.  files[model] is the directory json-db/<model>: a function from  *)
(* file names to file contents.  A file written by write_json_file holds   *)
(* the pretty-printed text of a document; the model keeps the document     *)
(* that text denotes, which read_json_file parses back into T.             *)
(***************************************************************************)
EmptyDir == [n \in {} |-> JNull]

\* format!("{}.json", id)
FileName(id) == id \o DotJson

\* Path::extension: the part after the last '.', None when the name has no
\* '.' or only a leading one.
extension(name) ==
    IF ~HasDot(name) THEN None
    ELSE LET i == CHOOSE j \in 1..Len(name) :
                      name[j] = Dot /\ \A h \in (j + 1)..Len(name) : name[h] # Dot
         IN  IF i = 1 THEN None ELSE Some(SubSeq(name, i + 1, Len(name)))

read_json_file(dir, name) ==
    IF name \in DOMAIN dir THEN from_value(dir[name]) ELSE None

\* write_json_file that does not overwrite a file that is there.
write_json_file_new(dir, name, data) ==
    IF name \in DOMAIN dir THEN dir ELSE (name :> to_value(data)) @@ dir

write_json_file(dir, name, data) == (name :> to_value(data)) @@ dir

\* The names read_dir may yield, in each order it may yield them.
Orders(S) ==
    {o \in [1..Cardinality(S) -> S] : \A i, j \in DOMAIN o : o[i] = o[j] => i = j}

get_all_files(dir) == {name \in DOMAIN dir : extension(name) = Some(Json)}

RECURSIVE FilterMapRead(_, _)
FilterMapRead(dir, names) ==
    IF names = <<>> THEN <<>>
    ELSE LET r == read_json_file(dir, Head(names))
         IN  (IF r.some THEN <<r.v>> ELSE <<>>) \o FilterMapRead(dir, Tail(names))

\* find_all, with the directory listing in the order `order`.
find_all(dir, order) == FilterMapRead(dir, order)

find_by_id(dir, id) == read_json_file(dir, FileName(id))

RECURSIVE Filter(_, _)
Filter(items, condition) ==
    IF items = <<>> THEN <<>>
    ELSE (IF matches_condition(to_value(Head(items)), condition)
          THEN <<Head(items)>> ELSE <<>>) \o Filter(Tail(items), condition)

find(dir, order, condition) == Filter(find_all(dir, order), condition)

find_one(dir, order, condition) ==
    LET found == find(dir, order, condition)
    IN  IF found = <<>> THEN None ELSE Some(Head(found))

count(dir, order, condition) == Len(find(dir, order, condition))

\* The outcome of an operation on a directory: the directory it leaves, and
\* whether it panicked (it stops at the panic; what it wrote before stays).
Done(dir) == [dir |-> dir, panic |-> FALSE]
Abort(dir) == [dir |-> dir, panic |-> TRUE]

\* update_by_id writing the patched document before it is deserialized.
update_by_id_early(dir, id, data) ==
    LET existing_data == find_by_id(dir, id)
    IN  IF ~existing_data.some THEN Done(dir)
        ELSE LET existing_json == update_nested_object(to_value(existing_data.v), data)
             IN  IF existing_json = Panic THEN Abort(dir)
                 ELSE IF ~from_value(existing_json).some
                      THEN Abort((FileName(id) :> existing_json) @@ dir)
                      ELSE Done(write_json_file(dir, FileName(id),
                                                from_value(existing_json).v))

\* update_by_id writing a record where none is stored.
update_by_id_upsert(dir, id, data) ==
    LET existing_data == find_by_id(dir, id)
        existing_json == update_nested_object(
                             IF existing_data.some THEN to_value(existing_data.v)
                             ELSE JObj(K_id :> JStr(id)), data)
    IN  IF existing_json = Panic THEN Abort(dir)
        ELSE LET updated_data == from_value(existing_json)
             IN  IF ~updated_data.some THEN Abort(dir)
                 ELSE Done(write_json_file(dir, FileName(id), updated_data.v))

update_by_id(dir, id, data) ==
    LET existing_data == find_by_id(dir, id)
    IN  IF ~existing_data.some THEN Done(dir)
        ELSE LET existing_json == update_nested_object(to_value(existing_data.v), data)
             IN  IF existing_json = Panic THEN Abort(dir)
                 ELSE LET updated_data == from_value(existing_json)
                      IN  IF ~updated_data.some THEN Abort(dir)
                          ELSE Done(write_json_file(dir, FileName(id), updated_data.v))

delete_by_id(dir, id) ==
    Done([n \in DOMAIN dir \ {FileName(id)} |-> dir[n]])

RECURSIVE UpdateEach(_, _, _)
UpdateEach(dir, items, data) ==
    IF items = <<>> THEN Done(dir)
    ELSE LET r == update_by_id(dir, get_id(Head(items)), data)
         IN  IF r.panic THEN r ELSE UpdateEach(r.dir, Tail(items), data)

update_many(dir, order, condition, data) ==
    UpdateEach(dir, find(dir, order, condition), data)

RECURSIVE DeleteEach(_, _)
DeleteEach(dir, items) ==
    IF items = <<>> THEN Done(dir)
    ELSE DeleteEach(delete_by_id(dir, get_id(Head(items))).dir, Tail(items))

delete_many(dir, order, condition) ==
    DeleteEach(dir, find(dir, order, condition))

\* The tail of push, pull and update_array: the modified document goes through
\* T and is handed to update_by_id as a patch.
WriteBack(dir, id, data_json) ==
    IF data_json = Panic THEN Abort(dir)
    ELSE LET updated_data == from_value(data_json)
         IN  IF ~updated_data.some THEN Abort(dir)
             ELSE update_by_id(dir, id, to_value(updated_data.v))

PushItem(dir, item, array_path, element) ==
    LET id == get_id(item)
        data == find_by_id(dir, id)
    IN  IF ~data.some THEN Done(dir)
        ELSE LET data_json == to_value(data.v)
                 keys == split(array_path)
                 array == get_nested_property(data_json, keys)
             IN  IF ~is_array(array) THEN Done(dir)
                 ELSE WriteBack(dir, id,
                         set_nested_property(data_json, keys,
                                             JArr(Append(array.a, element))))

RECURSIVE PushEach(_, _, _, _)
PushEach(dir, items, array_path, element) ==
    IF items = <<>> THEN Done(dir)
    ELSE LET r == PushItem(dir, Head(items), array_path, element)
         IN  IF r.panic THEN r ELSE PushEach(r.dir, Tail(items), array_path, element)

push(dir, order, condition, array_path, element) ==
    PushEach(dir, find(dir, order, condition), array_path, element)

RECURSIVE Retain(_, _)
Retain(a, pull_condition) ==
    IF a = <<>> THEN <<>>
    ELSE (IF ~matches_condition(Head(a), pull_condition) THEN <<Head(a)>> ELSE <<>>)
         \o Retain(Tail(a), pull_condition)

PullItem(dir, item, array_path, pull_condition) ==
    LET id == get_id(item)
        data == find_by_id(dir, id)
    IN  IF ~data.some THEN Done(dir)
        ELSE LET data_json == to_value(data.v)
                 keys == split(array_path)
                 array == get_nested_property(data_json, keys)
             IN  IF ~is_array(array) THEN Done(dir)
                 ELSE WriteBack(dir, id,
                         set_nested_property(data_json, keys,
                                             JArr(Retain(array.a, pull_condition))))

RECURSIVE PullEach(_, _, _, _)
PullEach(dir, items, array_path, pull_condition) ==
    IF items = <<>> THEN Done(dir)
    ELSE LET r == PullItem(dir, Head(items), array_path, pull_condition)
         IN  IF r.panic THEN r ELSE PullEach(r.dir, Tail(items), array_path, pull_condition)

pull(dir, order, condition, array_path, pull_condition) ==
    PullEach(dir, find(dir, order, condition), array_path, pull_condition)

\* The closure of update_array's map over the elements.
UpdateElem(elem, array_condition, updates) ==
    IF matches_condition(elem, array_condition)
    THEN update_nested_object(elem, updates)
    ELSE elem

UpdateArrayItem(dir, item, array_path, array_condition, updates) ==
    LET id == get_id(item)
        data == find_by_id(dir, id)
    IN  IF ~data.some THEN Done(dir)
        ELSE LET data_json == to_value(data.v)
                 keys == split(array_path)
                 array == get_nested_property(data_json, keys)
             IN  IF ~is_array(array) THEN Done(dir)
                 ELSE LET new_array == [i \in DOMAIN array.a |->
                                           UpdateElem(array.a[i], array_condition, updates)]
                      IN  IF \E i \in 1..Len(new_array) : new_array[i] = Panic
                          THEN Abort(dir)
                          ELSE WriteBack(dir, id,
                                  set_nested_property(data_json, keys, JArr(new_array)))

RECURSIVE UpdateArrayEach(_, _, _, _, _)
UpdateArrayEach(dir, items, array_path, array_condition, updates) ==
    IF items = <<>> THEN Done(dir)
    ELSE LET r == UpdateArrayItem(dir, Head(items), array_path, array_condition, updates)
         IN  IF r.panic THEN r
             ELSE UpdateArrayEach(r.dir, Tail(items), array_path, array_condition, updates)

update_array(dir, order, condition, array_path, array_condition, updates) ==
    UpdateArrayEach(dir, find(dir, order, condition), array_path, array_condition, updates)

(***************************************************************************)
(* Properties of the engine (checked under SpecEngine)                     *)
(***************************************************************************)
\* Whether every segment of keys is a key of the object reached so far.
RECURSIVE Resolves(_, _)
Resolves(obj, keys) ==
    \/ keys = <<>>
    \/ /\ is_object(obj)
       /\ Head(keys) \in DOMAIN obj.m
       /\ Resolves(obj.m[Head(keys)], Tail(keys))

\* No key of v, nor of an object value below it, contains '.'.
RECURSIVE NoDottedKeys(_)
NoDottedKeys(v) ==
    is_object(v) => \A k \in DOMAIN v.m : ~HasDot(k) /\ NoDottedKeys(v.m[k])

\* condition is made of some of doc's own top-level key/value pairs.
IsSubsetOf(condition, doc) ==
    /\ is_object(condition)
    /\ DOMAIN condition.m \subseteq DOMAIN doc.m
    /\ \A k \in DOMAIN condition.m : condition.m[k] = doc.m[k]

\* C2 (as claimed): for every object document, path and value,
\* set_nested_property completes and get_nested_property then returns the value.
C2_SetThenGet ==
    eng.op = "set" =>
        /\ eng.out # Panic
        /\ get_nested_property(eng.out, eng.keys) = eng.value

\* C3 (as claimed): a condition with a key that does not resolve to a present
\* value of the document never matches, whatever value it gives for that key.
C3_AbsentKeyNeverMatches ==
    (/\ eng.op = "matches"
     /\ \E k \in DOMAIN eng.condition.m : ~Resolves(eng.doc, split(k)))
    => eng.out = FALSE

\* C4 (as claimed): a condition made of a subset of the document's own
\* top-level key/value pairs matches it, for every key string.
C4_SubsetMatchesAnyKey ==
    (eng.op = "matches" /\ IsSubsetOf(eng.condition, eng.doc)) => eng.out = TRUE

\* C4 (amended): a condition made of a subset of the document's own top-level
\* key/value pairs, none of whose keys at any object depth contains '.',
\* matches the document; the empty condition matches every object.
C4_SubsetMatches ==
    (/\ eng.op = "matches"
     /\ IsSubsetOf(eng.condition, eng.doc)
     /\ NoDottedKeys(eng.condition))
    => eng.out = TRUE

\* A strict, non-empty subset of the fields was asked for and matched.
C4_Witness ==
    /\ eng.op = "matches"
    /\ eng.condition = JObj(K_a :> JObj(K_b :> JStr(S_1)))
    /\ DOMAIN eng.doc.m = {K_a, K_b, K_a_b}
    /\ IsSubsetOf(eng.condition, eng.doc)
    /\ eng.out = TRUE


(***************************************************************************)
(* The store: JsonDatabase<T>.  One action per public operation; `last`    *)
(* keeps the latest call and whether it panicked (for create, whether a    *)
(* file was there before; for update_by_id, the patch and whether a file   *)
(* changed).  JsonDatabase::new is Init.  base_path is set by new and      *)
(* never read again, so it is left out of the state.                       *)
(***************************************************************************)
MaxArr == 1

USERS == <<"u", "s", "e", "r", "s">>

\* Every array of v, at any depth, has at most n elements.
RECURSIVE ArraysWithin(_, _)
ArraysWithin(v, n) ==
    CASE is_array(v) -> Len(v.a) <= n /\ \A i \in 1..Len(v.a) : ArraysWithin(v.a[i], n)
      [] is_object(v) -> \A k \in DOMAIN v.m : ArraysWithin(v.m[k], n)
      [] OTHER -> TRUE

\* create_directory_if_not_exists(json-db/<model_name>)
create_directory_if_not_exists(fs, model_name) ==
    IF model_name \in DOMAIN fs THEN fs ELSE (model_name :> EmptyDir) @@ fs

\* The directory of the current model.
Dir == files[current_model_name.v]

\* A store that falls back to no panic where no model is selected.
NoModel_quiet(call) ==
    /\ ~current_model_name.some
    /\ last' = call @@ [panic |-> FALSE]
    /\ UNCHANGED <<current_model_name, files, eng>>

\* .expect("Model name is not specified") in get_file_path and get_all_files
NoModel(call) ==
    /\ ~current_model_name.some
    /\ last' = call @@ [panic |-> TRUE]
    /\ UNCHANGED <<current_model_name, files, eng>>

\* A call that leaves the directory r.dir.
Leaves(call, r) ==
    /\ current_model_name.some
    /\ \E res \in {r} :
          /\ \A n \in DOMAIN res.dir : ArraysWithin(res.dir[n], MaxArr)
          /\ files' = [files EXCEPT ![current_model_name.v] = res.dir]
          /\ last' = call @@ [panic |-> res.panic]
    /\ UNCHANGED <<current_model_name, eng>>

\* A call that returns and writes nothing.
Returns(call) ==
    /\ current_model_name.some
    /\ last' = call @@ [panic |-> FALSE]
    /\ UNCHANGED <<current_model_name, files, eng>>

Model(model_name) ==
    /\ current_model_name' = Some(model_name)
    /\ files' = create_directory_if_not_exists(files, model_name)
    /\ last' = [op |-> "model", panic |-> FALSE]
    /\ UNCHANGED eng

Create(id, data) ==
    LET call == [op |-> "create",
                 replaced |-> current_model_name.some /\ FileName(id) \in DOMAIN Dir]
    IN  \/ NoModel(call)
        \/ Leaves(call, Done(write_json_file(Dir, FileName(id), data)))

CreateModel(data) ==
    LET call == [op |-> "create_model"]
    IN  \/ /\ get_id(data) = <<>>
           /\ last' = call @@ [panic |-> TRUE]
           /\ UNCHANGED <<current_model_name, files, eng>>
        \/ get_id(data) # <<>> /\ NoModel(call)
        \/ /\ get_id(data) # <<>>
           /\ Leaves(call, Done(write_json_file(Dir, FileName(get_id(data)), data)))

FindById(id) ==
    LET call == [op |-> "find_by_id"]
    IN  \/ NoModel(call @@ [found |-> FALSE])
        \/ /\ current_model_name.some
           /\ Returns(call @@ [found |-> find_by_id(Dir, id).some])

UpdateById(id, data) ==
    LET call == [op |-> "update_by_id", data |-> data]
    IN  \/ NoModel(call @@ [changed |-> FALSE])
        \/ /\ current_model_name.some
           /\ \E res \in {update_by_id(Dir, id, data)} :
                 Leaves(call @@ [changed |-> res.dir # Dir], res)

DeleteById(id) ==
    LET call == [op |-> "delete_by_id"]
    IN  NoModel(call) \/ Leaves(call, delete_by_id(Dir, id))

\* find_all, find, find_one and count write nothing; last keeps how many
\* records they return, for the order read_dir took.
FindAll ==
    LET call == [op |-> "find_all"]
    IN  \/ NoModel(call @@ [n |-> 0])
        \/ /\ current_model_name.some
           /\ \E order \in Orders(get_all_files(Dir)) :
                 Returns(call @@ [n |-> Len(find_all(Dir, order))])

Find(condition) ==
    LET call == [op |-> "find"]
    IN  \/ NoModel(call @@ [n |-> 0])
        \/ /\ current_model_name.some
           /\ \E order \in Orders(get_all_files(Dir)) :
                 Returns(call @@ [n |-> Len(find(Dir, order, condition))])

FindOne(condition) ==
    LET call == [op |-> "find_one"]
    IN  \/ NoModel(call @@ [n |-> 0])
        \/ /\ current_model_name.some
           /\ \E order \in Orders(get_all_files(Dir)) :
                 Returns(call @@ [n |-> IF find_one(Dir, order, condition).some
                                        THEN 1 ELSE 0])

Count(condition) ==
    LET call == [op |-> "count"]
    IN  \/ NoModel(call @@ [n |-> 0])
        \/ /\ current_model_name.some
           /\ \E order \in Orders(get_all_files(Dir)) :
                 Returns(call @@ [n |-> count(Dir, order, condition)])

UpdateMany(condition, data) ==
    LET call == [op |-> "update_many"]
    IN  \/ NoModel(call)
        \/ /\ current_model_name.some
           /\ \E order \in Orders(get_all_files(Dir)) :
                 Leaves(call, update_many(Dir, order, condition, data))

DeleteMany(condition) ==
    LET call == [op |-> "delete_many"]
    IN  \/ NoModel(call)
        \/ /\ current_model_name.some
           /\ \E order \in Orders(get_all_files(Dir)) :
                 Leaves(call, delete_many(Dir, order, condition))

Push(condition, array_path, element) ==
    LET call == [op |-> "push"]
    IN  \/ NoModel(call)
        \/ /\ current_model_name.some
           /\ \E order \in Orders(get_all_files(Dir)) :
                 Leaves(call, push(Dir, order, condition, array_path, element))

Pull(condition, array_path, pull_condition) ==
    LET call == [op |-> "pull"]
    IN  \/ NoModel(call)
        \/ /\ current_model_name.some
           /\ \E order \in Orders(get_all_files(Dir)) :
                 Leaves(call, pull(Dir, order, condition, array_path, pull_condition))

UpdateArray(condition, array_path, array_condition, updates) ==
    LET call == [op |-> "update_array"]
    IN  \/ NoModel(call)
        \/ /\ current_model_name.some
           /\ \E order \in Orders(get_all_files(Dir)) :
                 Leaves(call, update_array(Dir, order, condition, array_path,
                                           array_condition, updates))

(***************************************************************************)
(* The calls the store is driven with.                                     *)
(***************************************************************************)
Models == {USERS}

Ids == {S_1, S_2}

Rests ==
    { (K_a :> JStr(S_1)) @@ (K_a_b :> JStr(S_1)) @@ (K_t :> JArr(<<>>)),
      (K_a :> JObj((K_b :> JStr(S_1)) @@ (K_t :> JStr(S_1)))) }

Records == {[id |-> i, rest |-> r] : i \in Ids, r \in Rests}

\* A record whose get_id is empty.
Unidentified == [id |-> S_empty, rest |-> EmptyMap]

Patches ==
    { JObj(K_a :> JObj(K_b :> JStr(S_2))),
      JObj(K_a_b :> JStr(S_2)),
      JObj(K_id :> JStr(S_2)),
      JObj(K_id :> JNull) }

Conditions == {JObj(EmptyMap), JObj(K_id :> JStr(S_1))}

ArrayPaths == {K_t}

Elements == {JObj(K_b :> JStr(S_1))}

ElementConditions == {JObj(K_b :> JStr(S_1)), JObj(EmptyMap)}

ElementUpdates == {JObj(K_b :> JStr(S_2)), JStr(S_2)}

\* What the base directory holds when the store is constructed: nothing, or
\* a collection written by an earlier run.
Stored ==
    { <<>>,
      USERS :> (FileName(S_1) :>
                    to_value([id |-> S_1,
                              rest |-> K_a :> JObj((K_b :> JStr(S_1)) @@ (K_t :> JStr(S_1)))])) }

Init ==
    /\ \E model_name \in {None} \cup {Some(m) : m \in Models} :
          /\ current_model_name = model_name
          /\ \E fs \in Stored :
                files = IF model_name.some
                        THEN create_directory_if_not_exists(fs, model_name.v)
                        ELSE fs
    /\ last = [op |-> "new", panic |-> FALSE]
    /\ eng = <<>>

Next ==
    \/ \E model_name \in Models : Model(model_name)
    \/ \E id \in Ids, data \in Records : Create(id, data)
    \/ \E data \in Records \cup {Unidentified} : CreateModel(data)
    \/ \E id \in Ids : FindById(id)
    \/ \E id \in Ids, data \in Patches : UpdateById(id, data)
    \/ \E id \in Ids : DeleteById(id)
    \/ FindAll
    \/ \E condition \in Conditions : Find(condition)
    \/ \E condition \in Conditions : FindOne(condition)
    \/ \E condition \in Conditions : Count(condition)
    \/ \E condition \in Conditions, data \in Patches : UpdateMany(condition, data)
    \/ \E condition \in Conditions : DeleteMany(condition)
    \/ \E condition \in Conditions, array_path \in ArrayPaths, element \in Elements :
          Push(condition, array_path, element)
    \/ \E condition \in Conditions, array_path \in ArrayPaths,
          pull_condition \in ElementConditions :
          Pull(condition, array_path, pull_condition)
    \/ \E condition \in Conditions, array_path \in ArrayPaths,
          array_condition \in ElementConditions, updates \in ElementUpdates :
          UpdateArray(condition, array_path, array_condition, updates)

Spec == Init /\ [][Next]_vars
(***************************************************************************)
(* Properties of the store (checked under Spec)                            *)
(***************************************************************************)
\* The file of the current model under id.
File(id) == Dir[FileName(id)]

\* The value of the field at a path of keys, taken as they are (no split),
\* or None where the document has no such field.
RECURSIVE Field(_, _)
Field(v, p) ==
    IF p = <<>> THEN Some(v)
    ELSE IF is_object(v) /\ Head(p) \in DOMAIN v.m THEN Field(v.m[Head(p)], Tail(p))
    ELSE None

IsPrefix(p, q) == Len(p) <= Len(q) /\ SubSeq(q, 1, Len(p)) = p

FieldKeys == {K_id, K_a, K_b, K_t, K_a_b}

FieldPaths == {<<k>> : k \in FieldKeys} \cup {<<k, h>> : k \in FieldKeys, h \in FieldKeys}

\* The paths the keys of a patch name.
Named(data) == {split(k) : k \in DOMAIN data.m}

\* Every file but the one under id is as it was.
OthersUnchanged(id) ==
    /\ DOMAIN Dir' \ {FileName(id)} = DOMAIN Dir \ {FileName(id)}
    /\ \A n \in DOMAIN Dir \ {FileName(id)} : Dir'[n] = Dir[n]

\* C1 (as claimed): every stored file's name minus ".json" is the identifier
\* of the record stored in it.
C1_FileNameIsId ==
    \A m \in DOMAIN files : \A n \in DOMAIN files[m] :
        LET r == read_json_file(files[m], n)
        IN  r.some /\ FileName(get_id(r.v)) = n

\* C5 (as claimed): right after delete_by_id(id) returns, find_by_id(id) is
\* absent and no record find_all returns has identifier id.
C5_DeletedIsGone ==
    [][\A id \in Ids :
          (last'.op = "delete_by_id" /\ ~last'.panic /\ DeleteById(id)) =>
              /\ ~find_by_id(Dir', id).some
              /\ \A order \in Orders(get_all_files(Dir')) :
                    \A i \in DOMAIN find_all(Dir', order) :
                        get_id(find_all(Dir', order)[i]) # id]_vars

\* C6: right after create(id, record) returns, find_by_id(id) is the record,
\* whether or not a file was there before, and every file under another
\* identifier is as it was.
C6_CreateThenFind ==
    [][\A id \in Ids, data \in Records :
          (last'.op = "create" /\ ~last'.panic /\ Create(id, data)) =>
              /\ find_by_id(Dir', id) = Some(data)
              /\ OthersUnchanged(id)]_vars

\* create replaced a record while another record was stored.
C6_Witness ==
    /\ last.op = "create"
    /\ ~last.panic
    /\ last.replaced
    /\ DOMAIN Dir = {FileName(S_1), FileName(S_2)}

\* C7: once update_by_id(id, patch) has completed, applying it again leaves
\* every stored record as the first application left it.
C7_UpdateIdempotent ==
    [][\A id \in Ids, data \in Patches :
          (last'.op = "update_by_id" /\ ~last'.panic /\ last'.data = data
              /\ UpdateById(id, data)) =>
              update_by_id(Dir', id, data) = Done(Dir')]_vars

\* update_by_id changed a record by a dotted-path patch.
C7_Witness ==
    /\ last.op = "update_by_id"
    /\ ~last.panic
    /\ last.changed
    /\ last.data = JObj(K_a_b :> JStr(S_2))

\* C8: after update_by_id(id, patch) on an existing record, every field whose
\* path is neither at, below nor above a path the patch names has the value
\* it had (or is absent as it was), and every other record is unchanged.
C8_UpdateFrame ==
    [][\A id \in Ids, data \in Patches :
          (/\ last'.op = "update_by_id" /\ ~last'.panic /\ last'.data = data
           /\ UpdateById(id, data)
           /\ find_by_id(Dir, id).some) =>
              /\ FileName(id) \in DOMAIN Dir'
              /\ \A p \in FieldPaths :
                    (\A q \in Named(data) : ~IsPrefix(q, p) /\ ~IsPrefix(p, q))
                    => Field(File(id)', p) = Field(File(id), p)
              /\ OthersUnchanged(id)]_vars

\* The patch "a.b" changed a record whose object at "a" keeps its other key,
\* with another record stored.
C8_Witness ==
    /\ last.op = "update_by_id"
    /\ ~last.panic
    /\ last.changed
    /\ last.data = JObj(K_a_b :> JStr(S_2))
    /\ DOMAIN Dir = {FileName(S_1), FileName(S_2)}
    /\ \E id \in Ids :
          Field(File(id), <<K_a>>) = Some(JObj((K_b :> JStr(S_2)) @@ (K_t :> JStr(S_1))))

\* C9 (as claimed): where the patch value and the existing value at a patch
\* key are both objects they are merged: the keys of the existing object that
\* the patch object does not mention are kept.
C9_ObjectsMerged ==
    [][\A id \in Ids, data \in Patches :
          (/\ last'.op = "update_by_id" /\ ~last'.panic /\ last'.data = data
           /\ UpdateById(id, data)
           /\ find_by_id(Dir, id).some) =>
              \A k \in DOMAIN data.m :
                  LET old == get_nested_property(File(id), split(k))
                      new == get_nested_property(File(id)', split(k))
                  IN  (is_object(old) /\ is_object(data.m[k])) =>
                          \A h \in DOMAIN old.m \ DOMAIN data.m[k].m :
                              Field(new, <<h>>) = Some(old.m[h])]_vars

\* C9 (amended): after update_by_id has applied a patch, the value at the
\* path of each patch key is the patch value, object or not: it replaces the
\* existing value wholesale.
C9_ValueReplaces ==
    [][\A id \in Ids, data \in Patches :
          (/\ last'.op = "update_by_id" /\ ~last'.panic /\ last'.data = data
           /\ UpdateById(id, data)
           /\ find_by_id(Dir, id).some) =>
              \A k \in DOMAIN data.m :
                  get_nested_property(File(id)', split(k)) = data.m[k]]_vars

\* An object-valued patch changed a record.
C9_Witness ==
    /\ last.op = "update_by_id"
    /\ ~last.panic
    /\ last.changed
    /\ last.data = JObj(K_a :> JObj(K_b :> JStr(S_2)))
    /\ \E id \in Ids :
          /\ FileName(id) \in DOMAIN Dir
          /\ Field(File(id), <<K_a>>) = Some(JObj(K_b :> JStr(S_2)))
          /\ Field(File(id), <<K_a_b>>) = None

\* C10 (as claimed): after push, every stored record that matched the
\* condition has the element appended to the array at array_path, or is
\* unchanged where array_path is no array.
C10_PushAppends ==
    [][\A condition \in Conditions, array_path \in ArrayPaths, element \in Elements :
          (last'.op = "push" /\ ~last'.panic /\ Push(condition, array_path, element)) =>
              \A n \in get_all_files(Dir) :
                  matches_condition(Dir[n], condition) =>
                      LET array == get_nested_property(Dir[n], split(array_path))
                      IN  /\ n \in DOMAIN Dir'
                          /\ IF is_array(array)
                             THEN get_nested_property(Dir'[n], split(array_path))
                                      = JArr(Append(array.a, element))
                             ELSE Dir'[n] = Dir[n]]_vars
\* The files of a directory whose record matches a condition.
Matched(dir, condition) == {n \in get_all_files(dir) : matches_condition(dir[n], condition)}

\* C11 (as claimed): after pull, in every stored record that matched the
\* condition and holds an array at array_path, the array is the earlier one
\* without the elements matching pull_condition, the rest in their order.
C11_PullRemoves ==
    [][\A condition \in Conditions, array_path \in ArrayPaths,
          pull_condition \in ElementConditions :
          (last'.op = "pull" /\ ~last'.panic
              /\ Pull(condition, array_path, pull_condition)) =>
              \A n \in Matched(Dir, condition) :
                  LET array == get_nested_property(Dir[n], split(array_path))
                  IN  is_array(array) =>
                          /\ n \in DOMAIN Dir'
                          /\ get_nested_property(Dir'[n], split(array_path))
                                 = JArr(Retain(array.a, pull_condition))]_vars
\* C12 (as claimed): update_array completes, and in every stored record that
\* matched the condition and holds an array at array_path the array keeps its
\* length, the elements not matching array_condition stay, and each matching
\* element is the result of update_nested_object(element, updates).
C12_UpdateArrayMaps ==
    [][\A condition \in Conditions, array_path \in ArrayPaths,
          array_condition \in ElementConditions, updates \in ElementUpdates :
          (last'.op = "update_array" /\ current_model_name.some
              /\ UpdateArray(condition, array_path, array_condition, updates)) =>
              \A n \in Matched(Dir, condition) :
                  LET array == get_nested_property(Dir[n], split(array_path))
                  IN  is_array(array) =>
                          /\ ~last'.panic
                          /\ n \in DOMAIN Dir'
                          /\ get_nested_property(Dir'[n], split(array_path))
                                 = JArr([i \in DOMAIN array.a |->
                                           IF matches_condition(array.a[i], array_condition)
                                           THEN update_nested_object(array.a[i], updates)
                                           ELSE array.a[i]])]_vars
\* A stored document with a patch applied the way update_by_id applies it:
\* update_nested_object, then through T.
Patched(doc, data) ==
    LET existing_json == update_nested_object(doc, data)
    IN  IF existing_json = Panic THEN None
        ELSE LET updated_data == from_value(existing_json)
             IN  IF updated_data.some THEN Some(to_value(updated_data.v)) ELSE None

\* C13 (as claimed): after update_many completes, every stored record that
\* matched the condition is its earlier content with the patch applied as
\* update_by_id applies it, and every other stored record is unchanged.
C13_UpdateManyUpdatesMatched ==
    [][\A condition \in Conditions, data \in Patches :
          (last'.op = "update_many" /\ ~last'.panic /\ UpdateMany(condition, data)) =>
              /\ DOMAIN Dir' = DOMAIN Dir
              /\ \A n \in DOMAIN Dir :
                    IF n \in Matched(Dir, condition)
                    THEN Some(Dir'[n]) = Patched(Dir[n], data)
                    ELSE Dir'[n] = Dir[n]]_vars
\* C14: update_by_id(id, patch) and delete_by_id(id) with no file stored
\* under id return without a panic and leave every file as it is, none added;
\* find_by_id(id) is absent.
C14_MissingIdIsNoOp ==
    [][\A id \in Ids :
          (current_model_name.some /\ FileName(id) \notin DOMAIN Dir) =>
              /\ ~find_by_id(Dir, id).some
              /\ (last'.op = "find_by_id" /\ FindById(id)) =>
                     ~last'.panic /\ ~last'.found
              /\ \A data \in Patches :
                    (last'.op = "update_by_id" /\ last'.data = data
                        /\ UpdateById(id, data)) =>
                        ~last'.panic /\ files' = files
              /\ (last'.op = "delete_by_id" /\ DeleteById(id)) =>
                     ~last'.panic /\ files' = files]_vars

\* update_by_id returned for a patch that no stored record survives (its id
\* is null), so the id it was called with has no file, while a record is
\* stored under the other id.
C14_Witness ==
    /\ current_model_name.some
    /\ last.op = "update_by_id"
    /\ last.data = JObj(K_id :> JNull)
    /\ ~last.panic
    /\ ~last.changed
    /\ Cardinality(DOMAIN Dir) = 1
RecordOps ==
    {"create", "find_by_id", "update_by_id", "delete_by_id", "find_all", "find",
     "find_one", "count", "update_many", "delete_many", "push", "pull", "update_array"}

\* C15: with no model selected, every record operation panics and leaves
\* every file, and the selection, as it is.
C15_NoModelAborts ==
    [][(~current_model_name.some /\ last'.op \in RecordOps) =>
          /\ last'.panic
          /\ files' = files
          /\ current_model_name' = current_model_name]_vars

\* A bulk operation panicked on a store with no model selected whose base
\* directory holds a record.
C15_Witness ==
    /\ ~current_model_name.some
    /\ last.op = "update_many"
    /\ last.panic
    /\ USERS \in DOMAIN files
    /\ files[USERS] # EmptyDir
\* The files of a directory, in the order read_dir gave them, whose record
\* matches a condition: the order in which a bulk operation's loop runs.
MatchedSeq(dir, order, condition) ==
    LET Test(n) == matches_condition(dir[n], condition)
    IN  SelectSeq(order, Test)

\* A bulk operation that panicked rolled nothing back and touched nothing
\* beyond the record it failed on: for some place k in its loop, the records
\* before k are as the loop body leaves them, the record at k makes the loop
\* body panic, and the record at k and all later ones are as they were.
\* single[n] is the outcome of the loop body on the record of file n.
StoppedAt(single, condition) ==
    \E order \in Orders(get_all_files(Dir)) :
        LET M == MatchedSeq(Dir, order, condition)
        IN  \E k \in 1..Len(M) :
               /\ DOMAIN Dir' = DOMAIN Dir
               /\ \A i \in 1..(k - 1) :
                     ~single[M[i]].panic /\ Dir'[M[i]] = single[M[i]].dir[M[i]]
               /\ single[M[k]].panic
               /\ \A i \in k..Len(M) : Dir'[M[i]] = Dir[M[i]]
               /\ \A n \in DOMAIN Dir : (\A i \in 1..Len(M) : M[i] # n) => Dir'[n] = Dir[n]

\* C16 (as claimed): when update_many, push, pull or update_array panics
\* while processing a matched record, the records earlier in the loop stay
\* updated and the record being processed and the later ones are unchanged.
C16_BulkStopsWhereItFails ==
    [][(current_model_name.some /\ last'.panic) =>
          /\ \A condition \in Conditions, data \in Patches :
                (last'.op = "update_many" /\ UpdateMany(condition, data)) =>
                    LET single == [n \in DOMAIN Dir |->
                                      update_by_id(Dir, get_id(from_value(Dir[n]).v), data)]
                    IN  StoppedAt(single, condition)
          /\ \A condition \in Conditions, array_path \in ArrayPaths :
                /\ \A element \in Elements :
                      (last'.op = "push" /\ Push(condition, array_path, element)) =>
                          LET single == [n \in DOMAIN Dir |->
                                            PushItem(Dir, from_value(Dir[n]).v,
                                                     array_path, element)]
                          IN  StoppedAt(single, condition)
                /\ \A pull_condition \in ElementConditions :
                      (last'.op = "pull" /\ Pull(condition, array_path, pull_condition)) =>
                          LET single == [n \in DOMAIN Dir |->
                                            PullItem(Dir, from_value(Dir[n]).v,
                                                     array_path, pull_condition)]
                          IN  StoppedAt(single, condition)
                /\ \A array_condition \in ElementConditions, updates \in ElementUpdates :
                      (last'.op = "update_array"
                          /\ UpdateArray(condition, array_path, array_condition, updates)) =>
                          LET single == [n \in DOMAIN Dir |->
                                            UpdateArrayItem(Dir, from_value(Dir[n]).v,
                                                            array_path, array_condition,
                                                            updates)]
                          IN  StoppedAt(single, condition)]_vars
\* C17 (as claimed): right after delete_many(condition) completes,
\* count(condition) is 0 and find(condition) is empty, and every stored
\* record that did not match the condition is stored unchanged.
C17_DeleteManyDeletesMatched ==
    [][\A condition \in Conditions :
          (last'.op = "delete_many" /\ ~last'.panic /\ DeleteMany(condition)) =>
              /\ \A order \in Orders(get_all_files(Dir')) :
                    /\ count(Dir', order, condition) = 0
                    /\ find(Dir', order, condition) = <<>>
              /\ \A n \in DOMAIN Dir \ Matched(Dir, condition) :
                    n \in DOMAIN Dir' /\ Dir'[n] = Dir[n]]_vars
\* The fields of the files matching a condition that are neither at, below
\* nor above array_path are, after the step, as they were.
OtherFieldsKept(condition, array_path) ==
    \A n \in Matched(Dir, condition) :
        /\ n \in DOMAIN Dir'
        /\ \A p \in FieldPaths :
              (~IsPrefix(split(array_path), p) /\ ~IsPrefix(p, split(array_path)))
              => Field(Dir'[n], p) = Field(Dir[n], p)

\* C18 (as claimed): push, pull and update_array change only the value at
\* array_path of the records they process, whatever the field names.
C18_ArrayOpsFrame ==
    [][current_model_name.some =>
          \A condition \in Conditions, array_path \in ArrayPaths :
              /\ \A element \in Elements :
                    (last'.op = "push" /\ Push(condition, array_path, element)) =>
                        OtherFieldsKept(condition, array_path)
              /\ \A pull_condition \in ElementConditions :
                    (last'.op = "pull" /\ Pull(condition, array_path, pull_condition)) =>
                        OtherFieldsKept(condition, array_path)
              /\ \A array_condition \in ElementConditions, updates \in ElementUpdates :
                    (last'.op = "update_array"
                        /\ UpdateArray(condition, array_path, array_condition, updates)) =>
                        OtherFieldsKept(condition, array_path)]_vars
\* C19: when update_by_id panics, every file is as it was before the call.
C19_FailedUpdateWritesNothing ==
    [][\A id \in Ids, data \in Patches :
          (current_model_name.some /\ last'.op = "update_by_id" /\ last'.data = data
              /\ last'.panic /\ UpdateById(id, data)) =>
              files' = files]_vars

\* update_by_id panicked on a patch through a non-object value, with two
\* records stored.
C19_Witness ==
    /\ current_model_name.some
    /\ last.op = "update_by_id"
    /\ last.panic
    /\ last.data = JObj(K_a_b :> JStr(S_2))
    /\ Cardinality(DOMAIN Dir) = 2
    /\ \E n \in DOMAIN Dir : Field(Dir[n], <<K_a>>) = Some(JStr(S_1))

(***************************************************************************)
(* Collections as directories.  get_file_path joins the id, as written by  *)
(* the caller, onto the directory of the selected collection; the file     *)
(* system then resolves the joined path.  The actions below are the        *)
(* single-record operations with that resolution made explicit, over       *)
(* two collections (checked under SpecPaths).                              *)
(***************************************************************************)
BASE_DIR == <<"j", "s", "o", "n", "-", "d", "b">>

PRODUCTS == <<"p", "r", "o", "d", "u", "c", "t", "s">>

Slash == "/"

DotDot == <<Dot, Dot>>

\* Path::components of a relative path: the names between separators.
RECURSIVE components(_)
components(s) ==
    IF \A i \in 1..Len(s) : s[i] # Slash THEN <<s>>
    ELSE LET i == CHOOSE j \in 1..Len(s) :
                      s[j] = Slash /\ \A h \in 1..(j - 1) : s[h] # Slash
         IN  <<SubSeq(s, 1, i - 1)>> \o components(SubSeq(s, i + 1, Len(s)))

\* Path::new(BASE_DIR).join(model_name)
get_model_path(model_name) == <<BASE_DIR>> \o components(model_name)

\* self.get_model_path(model_name).join(format!("{}.json", id))
get_file_path(model_name, id) ==
    get_model_path(model_name) \o components(FileName(id))

\* The directories that exist: the working directory, the base directory
\* made by new, and one directory per collection.
IsDirectory(fs, p) ==
    \/ p = <<>>
    \/ p = <<BASE_DIR>>
    \/ Len(p) = 2 /\ p[1] = BASE_DIR /\ p[2] \in DOMAIN fs

\* The directory the file system reaches by following the names of rest
\* from the directory at; ".." steps to the parent, and a name that is not
\* a directory ends the walk (ENOENT).
RECURSIVE Walk(_, _, _)
Walk(fs, at, rest) ==
    IF rest = <<>> THEN Some(at)
    ELSE LET c == Head(rest)
             next == IF c = DotDot
                     THEN IF at = <<>> THEN None
                          ELSE Some(SubSeq(at, 1, Len(at) - 1))
                     ELSE Some(Append(at, c))
         IN  IF next.some /\ IsDirectory(fs, next.v)
             THEN Walk(fs, next.v, Tail(rest))
             ELSE None

\* The file that File::create, File::open, Path::exists and remove_file
\* reach for a path: a name in the directory of a collection.  Paths that
\* end outside every collection directory are not located.
Lookup(fs, path) ==
    LET d == Walk(fs, <<>>, SubSeq(path, 1, Len(path) - 1))
    IN  IF d.some /\ Len(d.v) = 2
        THEN [ok |-> TRUE, model |-> d.v[2], name |-> path[Len(path)]]
        ELSE [ok |-> FALSE]

Located(id) == Lookup(files, get_file_path(current_model_name.v, id))

\* The id whose file name is name.
Stem(name) == SubSeq(name, 1, Len(name) - Len(DotJson))

CreatePath(id, data) ==
    LET call == [op |-> "create"]
    IN  \/ NoModel(call)
        \/ /\ current_model_name.some
           /\ LET loc == Located(id)
              IN  IF loc.ok
                  THEN /\ files' = [files EXCEPT
                                      ![loc.model] = write_json_file(@, loc.name, data)]
                       /\ last' = call @@ [panic |-> FALSE]
                  ELSE /\ files' = files
                       /\ last' = call @@ [panic |-> TRUE]
           /\ UNCHANGED <<current_model_name, eng>>

FindByIdPath(id) ==
    LET call == [op |-> "find_by_id"]
    IN  \/ NoModel(call @@ [found |-> FALSE])
        \/ /\ current_model_name.some
           /\ LET loc == Located(id)
              IN  Returns(call @@
                          [found |-> loc.ok /\ read_json_file(files[loc.model], loc.name).some])

UpdateByIdPath(id, data) ==
    LET call == [op |-> "update_by_id", data |-> data]
    IN  \/ NoModel(call @@ [changed |-> FALSE])
        \/ /\ current_model_name.some
           /\ LET loc == Located(id)
              IN  IF loc.ok
                  THEN \E res \in {update_by_id(files[loc.model], Stem(loc.name), data)} :
                          /\ files' = [files EXCEPT ![loc.model] = res.dir]
                          /\ last' = call @@ [changed |-> res.dir # files[loc.model],
                                              panic |-> res.panic]
                  ELSE /\ files' = files
                       /\ last' = call @@ [changed |-> FALSE, panic |-> FALSE]
           /\ UNCHANGED <<current_model_name, eng>>

DeleteByIdPath(id) ==
    LET call == [op |-> "delete_by_id"]
    IN  \/ NoModel(call)
        \/ /\ current_model_name.some
           /\ LET loc == Located(id)
              IN  IF loc.ok
                  THEN \E res \in {delete_by_id(files[loc.model], Stem(loc.name))} :
                          /\ files' = [files EXCEPT ![loc.model] = res.dir]
                          /\ last' = call @@ [panic |-> res.panic]
                  ELSE /\ files' = files
                       /\ last' = call @@ [panic |-> FALSE]
           /\ UNCHANGED <<current_model_name, eng>>

PathModels == {USERS, PRODUCTS}

\* A plain id, and an id that names a file of another collection.
S_up_products_1 == DotDot \o <<Slash>> \o PRODUCTS \o <<Slash>> \o S_1

PathIds == {S_1, S_up_products_1}

NextPaths ==
    \/ \E model_name \in PathModels : Model(model_name)
    \/ \E id \in PathIds, data \in Records : CreatePath(id, data)
    \/ \E id \in PathIds : FindByIdPath(id)
    \/ \E id \in PathIds, data \in Patches : UpdateByIdPath(id, data)
    \/ \E id \in PathIds : DeleteByIdPath(id)

SpecPaths == Init /\ [][NextPaths]_vars

(***************************************************************************)
(* Properties of collections (checked under SpecPaths)                     *)
(***************************************************************************)
\* C20: every operation acts only on the collection selected by the latest
\* model(name) call or by the constructor: a record operation leaves every
\* other collection as it was, and find_by_id returns a record only from
\* the selected collection.
C20_OtherCollectionsUntouched ==
    [][(current_model_name.some /\ last'.op \in RecordOps) =>
          /\ \A m \in DOMAIN files \ {current_model_name.v} :
                m \in DOMAIN files' /\ files'[m] = files[m]
          /\ \A id \in PathIds :
                (last'.op = "find_by_id" /\ last'.found /\ FindByIdPath(id)) =>
                    Located(id).model = current_model_name.v]_vars
====
